---------------------------- MODULE Spec2Model ----------------------------
(***************************************************************************)
(* Kokoro-TTS-spanish: the Spanish grapheme-to-phoneme pipeline            *)
(* (g2p_lib.py) and the greedy longest-match phoneme tokenizer             *)
(* (tts-kokoro-esp.py, tokenize_ipa).                                      *)
(*                                                                         *)
(* A Python str is a sequence of one-character values.  An ASCII character *)
(* is the TLA+ string of that character; a non-ASCII character is written  *)
(* with an ASCII name:                                                     *)
(*   "a'" "e'" "i'" "o'" "u'"  a e i o u with acute      "A'"  capital A   *)
(*   "n~" n with tilde          "u:" u with diaeresis          with acute  *)
(*   STRESS  U+02C8 primary stress    TESH  U+02A7    ESH  U+0283          *)
(*   TAP U+027E   JOT U+029D   ENYE U+0272   ENG U+014B                    *)
(*   ELLIPSIS U+2026   COMBINING_ACUTE U+0301, and the punctuation below.  *)
(***************************************************************************)
EXTENDS Naturals, Integers, Sequences, FiniteSets, TLC

STRESS == "'"
TESH == "tS"
ESH == "sh"
TAP == "tap"
JOT == "jj"
ENYE == "nj"
ENG == "ng"
ELLIPSIS == "ellipsis"
COMBINING_ACUTE == "+acute"

(* ---------------- bounds of the checked inputs ---------------- *)
MaxTextLen == 4
MaxWordLen == 4
MaxBodyLen == 3
MaxKeys == 2

(* ---------------- generic string helpers ---------------- *)
\* All sequences over S of length at most n.
SeqsUpTo(S, len) == UNION {[1..k -> S] : k \in 0..len}

\* st[ix-1:] of Python: the suffix from the 1-based position ix.
From(st, ix) == SubSeq(st, ix, Len(st))

\* st.startswith(p, ix-1) of Python (ix is 1-based here).
StartsWithAt(st, p, ix) ==
    /\ ix + Len(p) - 1 <= Len(st)
    /\ \A k \in 1..Len(p) : st[ix + k - 1] = p[k]

startswith(st, p) == StartsWithAt(st, p, 1)

endswith(st, p) == Len(p) <= Len(st) /\ StartsWithAt(st, p, Len(st) - Len(p) + 1)

\* c in st, for a character c.
Contains(st, c) == \E k \in 1..Len(st) : st[k] = c

\* str.replace(old, new): leftmost non-overlapping occurrences; old is non-empty.
RECURSIVE replace(_, _, _)
replace(st, old, new) ==
    IF Len(st) = 0 THEN <<>>
    ELSE IF startswith(st, old) THEN new \o replace(From(st, Len(old) + 1), old, new)
    ELSE <<Head(st)>> \o replace(Tail(st), old, new)

\* A look-behind: none ("any"), (?<=[set]) ("in") or (?<=[^set]) ("notin"),
\* tested on the character before position ix.
BehindOk(st, ix, behind) ==
    CASE behind.kind = "any" -> TRUE
      [] behind.kind = "in" -> ix > 1 /\ st[ix - 1] \in behind.set
      [] behind.kind = "notin" -> ix > 1 /\ st[ix - 1] \notin behind.set

\* re.sub of a fixed pattern pat guarded by look-arounds.  The scan goes left
\* to right over the ORIGINAL string st from index ix: where pat matches at ix,
\* the character before ix satisfies behind and the text after the match
\* starts with one of the sequences in ahead, the match is replaced by new
\* and the scan resumes after it; otherwise st[ix] is copied.
RECURSIVE ReSubFrom(_, _, _, _, _, _)
ReSubFrom(st, ix, pat, behind, ahead, new) ==
    IF ix > Len(st) THEN <<>>
    ELSE IF /\ StartsWithAt(st, pat, ix)
            /\ BehindOk(st, ix, behind)
            /\ \E a \in ahead : StartsWithAt(st, a, ix + Len(pat))
         THEN new \o ReSubFrom(st, ix + Len(pat), pat, behind, ahead, new)
         ELSE <<st[ix]>> \o ReSubFrom(st, ix + 1, pat, behind, ahead, new)

\* No look-behind.
NoBehind == [kind |-> "any", set |-> {}]

\* re.sub(r"pat(?=...)", new, s): ahead is the set of strings the look-ahead accepts.
ReSubAhead(st, pat, ahead, new) == ReSubFrom(st, 1, pat, NoBehind, ahead, new)

\* The look-ahead [set]: one character of the set.
OneOf(set) == {<<c>> : c \in set}

\* A character class written as a Python string, as a set.
Set(st) == {st[k] : k \in 1..Len(st)}

\* sep.join(parts)
RECURSIVE join(_, _)
join(sep, parts) ==
    IF Len(parts) = 0 THEN <<>>
    ELSE IF Len(parts) = 1 THEN parts[1]
    ELSE parts[1] \o sep \o join(sep, Tail(parts))

(* ---------------- g2p_lib.py: configuration and character classes ---------------- *)
VOWELS == <<"a", "e", "i", "o", "u">>
VOWELS_ACCENTED == <<"a'", "e'", "i'", "o'", "u'">>
ALL_VOWELS == VOWELS \o VOWELS_ACCENTED

\* str.maketrans(VOWELS_ACCENTED, VOWELS)
ACUTE_MAP == [k \in 1..5 |-> <<VOWELS_ACCENTED[k], VOWELS[k]>>]

ACCENT_VOWEL_MAP(ch) == CHOOSE v \in Set(VOWELS_ACCENTED) :
    \E k \in 1..5 : VOWELS[k] = ch /\ VOWELS_ACCENTED[k] = v

PUNCT_CHARS == <<",", ".", ";", ":", "!inv", "!", "?inv", "?", "(", ")", "[", "]",
                 "{", "}", "\"", "<<", ">>", "ldq", "rdq", "emdash", "endash", ELLIPSIS>>
PUNCT_SET == Set(PUNCT_CHARS)

\* The characters str.strip() and \s treat as whitespace (the modelled ones).
WHITESPACE == {" ", "\t", "\n"}

GLIDE_MODES == {"safe", "full"}

(* ---------------- g2p_lib.py: utilities ---------------- *)
\* unicodedata.normalize('NFC', text) on the modelled characters: a combining
\* acute composes with a preceding a e i o u or A, and with no other
\* modelled character (h, the punctuation, the space, an accented vowel).
NFC_COMPOSE(c) ==
    CASE c = "a" -> "a'" [] c = "e" -> "e'" [] c = "i" -> "i'"
      [] c = "o" -> "o'" [] c = "u" -> "u'" [] c = "A" -> "A'"
      [] OTHER -> c

RECURSIVE normalize_nfc(_)
normalize_nfc(text) ==
    IF Len(text) < 2 THEN text
    ELSE IF text[2] = COMBINING_ACUTE /\ NFC_COMPOSE(text[1]) # text[1]
         THEN <<NFC_COMPOSE(text[1])>> \o normalize_nfc(From(text, 3))
         ELSE <<text[1]>> \o normalize_nfc(Tail(text))

\* Mutant of PunctSub: a space is inserted after the punctuation only.
RECURSIVE PunctSub_after_only(_)
PunctSub_after_only(text) ==
    IF Len(text) = 0 THEN <<>>
    ELSE IF Head(text) \in PUNCT_SET
         THEN <<Head(text), " ">> \o PunctSub_after_only(Tail(text))
         ELSE <<Head(text)>> \o PunctSub_after_only(Tail(text))

\* _PUNCT_RE.sub(r' \1 ', text)
RECURSIVE PunctSub(_)
PunctSub(text) ==
    IF Len(text) = 0 THEN <<>>
    ELSE IF Head(text) \in PUNCT_SET
         THEN <<" ", Head(text), " ">> \o PunctSub(Tail(text))
         ELSE <<Head(text)>> \o PunctSub(Tail(text))

\* re.sub(r'\s+', ' ', text)
RECURSIVE CollapseWs(_)
CollapseWs(text) ==
    IF Len(text) = 0 THEN <<>>
    ELSE IF Head(text) \in WHITESPACE
         THEN IF Len(text) > 1 /\ text[2] \in WHITESPACE
              THEN CollapseWs(Tail(text))
              ELSE <<" ">> \o CollapseWs(Tail(text))
         ELSE <<Head(text)>> \o CollapseWs(Tail(text))

\* str.lstrip(chars) / str.rstrip(chars) / str.strip(chars)
RECURSIVE lstrip(_, _)
lstrip(st, chars) ==
    IF Len(st) > 0 /\ Head(st) \in chars THEN lstrip(Tail(st), chars) ELSE st

RECURSIVE rstrip(_, _)
rstrip(st, chars) ==
    IF Len(st) > 0 /\ st[Len(st)] \in chars THEN rstrip(SubSeq(st, 1, Len(st) - 1), chars) ELSE st

strip(st, chars) == rstrip(lstrip(st, chars), chars)

\* Mutant of space_punct: the one-character ellipsis is first rewritten to
\* three dots, so that both spellings normalize alike.
space_punct_unified(text) ==
    LET t0 == replace(text, <<ELLIPSIS>>, <<".", ".", ".">>)
        t1 == PunctSub(t0)
        t2 == replace(t1, <<".", ".", ".">>, <<" ", ".", " ", ".", " ", ".", " ">>)
    IN  strip(CollapseWs(t2), WHITESPACE)

space_punct(text) ==
    LET t1 == PunctSub(text)
        t2 == replace(t1, <<".", ".", ".">>, <<" ", ".", " ", ".", " ", ".", " ">>)
    IN  strip(CollapseWs(t2), WHITESPACE)

\* text.split(" "): the pieces between single spaces, empty pieces included.
RECURSIVE SplitAcc(_, _)
SplitAcc(st, cur) ==
    IF Len(st) = 0 THEN <<cur>>
    ELSE IF Head(st) = " " THEN <<cur>> \o SplitAcc(Tail(st), <<>>)
    ELSE SplitAcc(Tail(st), Append(cur, Head(st)))

split(st) == SplitAcc(st, <<>>)

\* str.lower() on the modelled characters.
LowerChar(c) ==
    CASE c = "A" -> "a" [] c = "A'" -> "a'" [] c = "H" -> "h" [] c = "Y" -> "y"
      [] OTHER -> c

normalize_word(word) == [k \in 1..Len(word) |-> LowerChar(word[k])]

TranslateChar(c) ==
    IF \E k \in 1..5 : ACUTE_MAP[k][1] = c
    THEN (CHOOSE p \in Set(ACUTE_MAP) : p[1] = c)[2]
    ELSE c

strip_accents(st) == [k \in 1..Len(st) |-> TranslateChar(st[k])]

(* ---------------- g2p_lib.py: core mapping ---------------- *)
FRONT == {"e", "e'", "i", "i'"}

PLACEHOLDER == <<"R", "R", "R">>

\* The character before position i is not a vowel: (?<=[^aeiou...])
BehindNonVowel == [kind |-> "notin", set |-> Set(ALL_VOWELS)]

\* re.sub(r"([lns])r", r"\1" + placeholder, w): the pattern consumes the l, n or s.
RECURSIVE ClusterSub(_)
ClusterSub(w) ==
    IF Len(w) = 0 THEN <<>>
    ELSE IF Len(w) >= 2 /\ w[1] \in {"l", "n", "s"} /\ w[2] = "r"
         THEN <<w[1]>> \o PLACEHOLDER \o ClusterSub(From(w, 3))
         ELSE <<Head(w)>> \o ClusterSub(Tail(w))

\* Lines 59-62: n before g, k, qu, or c + a/o/u becomes the velar nasal.
NasalAssimilate(w) ==
    ReSubAhead(
      ReSubAhead(
        ReSubAhead(
          ReSubAhead(w, <<"n">>, {<<"g">>}, <<ENG>>),
          <<"n">>, {<<"k">>}, <<ENG>>),
        <<"n">>, {<<"q", "u">>}, <<ENG>>),
      <<"n">>, {<<"c", v>> : v \in {"a", "o", "u", "a'", "o'", "u'"}}, <<ENG>>)

\* Line 69: ch
ChRule(w) == replace(w, <<"c", "h">>, <<TESH>>)

\* Lines 72-74: initial x is s, any other x is ks.
XRules(w) ==
    replace(IF startswith(w, <<"x">>) THEN <<"s">> \o Tail(w) ELSE w, <<"x">>, <<"k", "s">>)

\* Lines 77-78: g before e/i, and every j, become x.
VelarRules(w) == replace(ReSubAhead(w, <<"g">>, OneOf(FRONT), <<"x">>), <<"j">>, <<"x">>)

\* Lines 81-82: gu before e/i loses the u; gu with diaeresis becomes gw.
GuRules(w) ==
    replace(ReSubAhead(w, <<"g", "u">>, OneOf(FRONT), <<"g">>), <<"g", "u:">>, <<"g", "w">>)

\* Lines 85-88: ce/ci, z, c, qu before e/i.
CZQuRules(w) ==
    ReSubAhead(
      replace(
        replace(ReSubAhead(w, <<"c">>, OneOf(FRONT), <<"s">>), <<"z">>, <<"s">>),
        <<"c">>, <<"k">>),
      <<"q", "u">>, OneOf(FRONT), <<"k">>)

\* Line 91: v
VRule(w) == replace(w, <<"v">>, <<"b">>)

\* Lines 94-96: hi/hu before a vowel become j/w; any other h is dropped.
HRules(w) ==
    replace(
      ReSubAhead(
        ReSubAhead(w, <<"h", "i">>, OneOf(Set(ALL_VOWELS)), <<"j">>),
        <<"h", "u">>, OneOf(Set(ALL_VOWELS)), <<"w">>),
      <<"h">>, <<>>)

\* Line 99: n with tilde
EnyeRule(w) == replace(w, <<"n~">>, <<ENYE>>)

\* Line 102: ll
LlRule(w) == replace(w, <<"l", "l">>, <<JOT>>)

\* Line 103: re.sub(r"^y(?=[vowels])", ...)
YInitial(w) ==
    IF startswith(w, <<"y">>) /\ Len(w) >= 2 /\ w[2] \in Set(ALL_VOWELS)
    THEN <<JOT>> \o Tail(w) ELSE w

\* Line 104: re.sub(r"(?<=[^vowels])y(?=[vowels])", ...)
YOnset(w) == ReSubFrom(w, 1, <<"y">>, BehindNonVowel, OneOf(Set(ALL_VOWELS)), <<JOT>>)

\* Line 105: re.sub(r"(?<=[vowels])y$", ...)
YFinal(w) ==
    IF Len(w) >= 2 /\ w[Len(w)] = "y" /\ w[Len(w) - 1] \in Set(ALL_VOWELS)
    THEN SubSeq(w, 1, Len(w) - 1) \o <<"j">> ELSE w

\* Lines 108-110: word-final n under nasal assimilation.
FinalNasal(w, nasal) ==
    IF nasal /\ endswith(w, <<"n">>) THEN SubSeq(w, 1, Len(w) - 1) \o <<ENG>> ELSE w

\* Lines 115-116: a word-initial r is strong.
RInitial(w) == IF startswith(w, <<"r">>) THEN PLACEHOLDER \o Tail(w) ELSE w

\* Lines 113-119: r/rr and onset-r strengthening through the placeholder.
Rhotics(w) ==
    replace(
      replace(ClusterSub(RInitial(replace(w, <<"r", "r">>, PLACEHOLDER))), <<"r">>, <<TAP>>),
      PLACEHOLDER, <<"r">>)

\* Lines 68-119 in order, after the test for the bare word "y".
RewriteChain(w, nasal) ==
    Rhotics(FinalNasal(YFinal(YOnset(YInitial(LlRule(EnyeRule(HRules(VRule(CZQuRules(
      GuRules(VelarRules(XRules(ChRule(w)))))))))))), nasal))

\* Lines 55-66: lower-casing, the optional nasal assimilation, the word "y".
MapNormalized(w, nasal) == IF w = <<"y">> THEN <<"i">> ELSE RewriteChain(w, nasal)

map_graphemes(word, nasal) ==
    MapNormalized(IF nasal THEN NasalAssimilate(normalize_word(word))
                  ELSE normalize_word(word), nasal)

\* list(re.finditer("[aeiou...]+", phonemes)): the maximal runs of vowels,
\* each as <<start, end>> with 1-based inclusive positions, in order.
IsVowelAt(st, k) == k >= 1 /\ k <= Len(st) /\ st[k] \in Set(ALL_VOWELS)

RECURSIVE GroupsFrom(_, _)
GroupsFrom(st, ix) ==
    IF ix > Len(st) THEN <<>>
    ELSE IF ~IsVowelAt(st, ix) THEN GroupsFrom(st, ix + 1)
    ELSE LET e == CHOOSE e \in ix..Len(st) :
                      /\ \A k \in ix..e : IsVowelAt(st, k)
                      /\ ~IsVowelAt(st, e + 1)
         IN  <<<<ix, e>>>> \o GroupsFrom(st, e + 1)

VowelGroups(st) == GroupsFrom(st, 1)

\* Line 137
ends_like_penult(phonemes) ==
    \/ \E v \in Set(VOWELS) : endswith(phonemes, <<v>>)
    \/ endswith(phonemes, <<"n">>) \/ endswith(phonemes, <<"s">>)

\* Lines 138-140: the 0-based index of the group to stress, given len(groups).
target_idx(phonemes, ngroups) ==
    LET t0 == ngroups - (IF ends_like_penult(phonemes) THEN 2 ELSE 1)
    IN  IF t0 < 0 THEN 0 ELSE t0

\* The least element of a non-empty set of positions.
Least(S) == CHOOSE j \in S : \A k \in S : j <= k

\* Lines 144-148: accent the first plain vowel among the given positions.
AccentFirstPlain(phonemes, plain) ==
    IF plain = {} THEN phonemes
    ELSE [phonemes EXCEPT ![Least(plain)] = ACCENT_VOWEL_MAP(phonemes[Least(plain)])]

\* Lines 142-148: accent the first plain vowel of group g = <<start, end>>.
AccentGroup(phonemes, g) ==
    AccentFirstPlain(phonemes, {j \in g[1]..g[2] : phonemes[j] \in Set(VOWELS)})

\* Lines 133-148
StressDefault(phonemes, groups) ==
    IF Len(groups) <= 1 THEN phonemes
    ELSE AccentGroup(phonemes, groups[target_idx(phonemes, Len(groups)) + 1])

add_stress_if_needed(phonemes) ==
    IF \E v \in Set(VOWELS_ACCENTED) : Contains(phonemes, v) THEN phonemes
    ELSE StressDefault(phonemes, VowelGroups(phonemes))

BehindAEO == [kind |-> "in", set |-> {"a", "e", "o", "a'", "e'", "o'"}]

BehindAEIO == [kind |-> "in", set |-> {"a", "e", "i", "o", "a'", "e'", "i'", "o'"}]

\* A look-ahead that accepts anything (no look-ahead).
AnyAhead == {<<>>}

apply_glides(phonemes, GLIDE_MODE) ==
    LET p1 == ReSubAhead(phonemes, <<"i">>, OneOf({"a", "e", "o", "a'", "e'", "o'"}), <<"j">>)
        p2 == ReSubAhead(p1, <<"u">>,
                         OneOf({"a", "e", "i", "o", "a'", "e'", "i'", "o'"}), <<"w">>)
        p3 == ReSubFrom(p2, 1, <<"i">>, BehindAEO, AnyAhead, <<"j">>)
        p4 == ReSubFrom(p3, 1, <<"u">>, BehindAEIO, AnyAhead, <<"w">>)
    IN  IF GLIDE_MODE # "full" THEN phonemes ELSE p4

\* Lines 179-185: the marker goes before the accented vowel at pos, or before
\* a j/w right before it; the vowel loses its accent.
MarkerStart(phonemes, pos) ==
    IF pos > 1 /\ phonemes[pos - 1] \in {"j", "w"} THEN pos - 1 ELSE pos

InsertMarker(phonemes, pos, start_pos) ==
    SubSeq(phonemes, 1, start_pos - 1) \o <<STRESS>> \o SubSeq(phonemes, start_pos, pos - 1)
        \o strip_accents(<<phonemes[pos]>>) \o From(phonemes, pos + 1)

\* The positions of the accented vowels: re.search finds the least.
AccentedAt(phonemes) == {k \in 1..Len(phonemes) : phonemes[k] \in Set(VOWELS_ACCENTED)}

\* Mutant of MarkAndClean: the string with the marker is returned without the
\* final strip_accents.
MarkAndClean_unstripped(phonemes, pos) ==
    InsertMarker(phonemes, pos, MarkerStart(phonemes, pos))

\* Lines 179-186
MarkAndClean(phonemes, pos) ==
    strip_accents(InsertMarker(phonemes, pos, MarkerStart(phonemes, pos)))

insert_stress_marker_and_clean(phonemes) ==
    IF AccentedAt(phonemes) = {} THEN strip_accents(phonemes)
    ELSE MarkAndClean(phonemes, Least(AccentedAt(phonemes)))

(* ---------------- g2p_lib.py: public API ---------------- *)
\* One iteration of the loop of g2p over a non-empty token: the token, whether
\* it took the word branch, and the value after each stage (p4 is appended to out).
TokenResult(tok, nasal, glide_mode) ==
    IF Set(tok) \subseteq PUNCT_SET
    THEN [tok |-> tok, word |-> FALSE, p1 |-> tok, p2 |-> tok, p3 |-> tok, p4 |-> tok]
    ELSE LET p1 == map_graphemes(tok, nasal)
             p2 == add_stress_if_needed(p1)
             p3 == apply_glides(p2, glide_mode)
             p4 == insert_stress_marker_and_clean(p3)
         IN  [tok |-> tok, word |-> TRUE, p1 |-> p1, p2 |-> p2, p3 |-> p3, p4 |-> p4]

\* The tokens the loop of g2p processes: text.split(" ") without the empty pieces.
Tokens(text) == SelectSeq(split(space_punct(normalize_nfc(text))), LAMBDA t : Len(t) > 0)

\* The per-token results of g2p(text), in order; empty when text is empty.
g2p_out(text, nasal, glide_mode) ==
    IF Len(text) = 0 THEN <<>>
    ELSE LET toks == Tokens(text)
         IN  [k \in 1..Len(toks) |-> TokenResult(toks[k], nasal, glide_mode)]

\* The tail of g2p: join the appended results, strip, and wrap in slashes.
Assemble(text, res) ==
    LET out == [k \in 1..Len(res) |-> res[k].p4]
        result == strip(join(<<" ">>, out), WHITESPACE)
    IN  IF Len(text) = 0 THEN <<"/", "/">>
        ELSE IF Len(result) > 0 THEN <<"/", " ">> \o result \o <<" ", "/">>
        ELSE <<"/", "/">>

g2p(text, nasal, glide_mode) == Assemble(text, g2p_out(text, nasal, glide_mode))

(* ---------------- tts-kokoro-esp.py: tokenize_ipa ---------------- *)
\* sorted(phoneme_to_id.keys(), key=len, reverse=True): a stable sort, so keys
\* of equal length stay in insertion order.  vocab is the sequence of the
\* dictionary's keys in insertion order.
RECURSIVE SortedFrom(_, _)
SortedFrom(vocab, len) ==
    LET same == SelectSeq(vocab, LAMBDA k : Len(k) = len)
    IN  IF len = 0 THEN same ELSE same \o SortedFrom(vocab, len - 1)

MaxKeyLen(vocab) ==
    IF Len(vocab) = 0 THEN 0
    ELSE CHOOSE m \in {Len(vocab[k]) : k \in 1..Len(vocab)} :
             \A k \in 1..Len(vocab) : Len(vocab[k]) <= m

\* Mutant of SortedKeys: the keys are tried in insertion order.
SortedKeys_unsorted(vocab) == vocab

SortedKeys(vocab) == SortedFrom(vocab, MaxKeyLen(vocab))

InVocab(vocab, key) == \E k \in 1..Len(vocab) : vocab[k] = key

\* Mutant of PrepareString: the stress symbol is always deleted.
PrepareString_drop_stress(text, vocab, keep_stress) ==
    LET s0 == strip(strip(text, WHITESPACE), {"/"})
        s1 == replace(s0, <<STRESS>>, <<>>)
        s2 == IF InVocab(vocab, <<TESH>>) /\ ~InVocab(vocab, <<"t", ESH>>)
              THEN replace(s1, <<"t", ESH>>, <<TESH>>) ELSE s1
    IN  s2

\* Lines 49-57: the string the scan runs over.
PrepareString(text, vocab, keep_stress) ==
    LET s0 == strip(strip(text, WHITESPACE), {"/"})
        s1 == IF ~(keep_stress /\ InVocab(vocab, <<STRESS>>))
              THEN replace(s0, <<STRESS>>, <<>>) ELSE s0
        s2 == IF InVocab(vocab, <<TESH>>) /\ ~InVocab(vocab, <<"t", ESH>>)
              THEN replace(s1, <<"t", ESH>>, <<TESH>>) ELSE s1
    IN  s2

\* Mutant of Matching: the empty key is not skipped.
Matching_empty_key(st, ks, pos) ==
    SelectSeq(ks, LAMBDA k : StartsWithAt(st, k, pos + 1))

\* The keys, in the order of the inner for loop, that match at 0-based position pos.
Matching(st, ks, pos) ==
    SelectSeq(ks, LAMBDA k : Len(k) > 0 /\ StartsWithAt(st, k, pos + 1))

(* ---------------- state ---------------- *)
VARIABLES
    spanish_text,           \* the text handed to g2p
    NASAL_ASSIMILATION,     \* g2p_lib.NASAL_ASSIMILATION
    GLIDE_MODE,             \* g2p_lib.GLIDE_MODE
    results,                \* per token of g2p: the values after each stage
    ipa,                    \* the string g2p returned
    phase,                  \* "input" before g2p has run, "done" after
    ipa_text,               \* tokenize_ipa: the argument ipa_text
    phoneme_to_id,          \* the keys of the vocabulary, in insertion order
    keep_stress_if_mapped,
    s, keys, tokens, unknown, i, n,   \* the locals of tokenize_ipa
    pc                      \* "idle", "start", "scan" (the while loop), "done"

gvars == <<spanish_text, NASAL_ASSIMILATION, GLIDE_MODE, results, ipa, phase>>
tvars == <<ipa_text, phoneme_to_id, keep_stress_if_mapped, s, keys, tokens, unknown, i, n, pc>>
vars == <<gvars, tvars>>

(* ---------------- the inputs that are checked ---------------- *)
TextChars == {"a", "A'", "h", "d", ".", ELLIPSIS, " ", COMBINING_ACUTE}
WordChars == {"a", "i", "a'", "n", "s", "z", "d", "y", "h", "q"}
BodyChars == {"a", " ", STRESS, "t", ESH}
KeyUniverse == {<<"a">>, <<"a", "a">>, <<" ">>, <<STRESS>>, <<>>, <<TESH>>}

\* The vocabularies: sequences of distinct keys.
VocabulariesOver(universe) ==
    {v \in SeqsUpTo(universe, MaxKeys) : \A a, b \in 1..Len(v) : a # b => v[a] # v[b]}

Vocabularies == VocabulariesOver(KeyUniverse)

\* The smaller inputs of the termination check.
ScanChars == {"a", "t", " "}
ScanKeys == {<<>>, <<"a">>, <<"a", "a">>, <<" ">>}

\* A transcription body, bare or between the delimiters g2p writes.
IpaTexts ==
    LET bodies == SeqsUpTo(BodyChars, MaxBodyLen)
    IN  bodies \cup {<<"/", " ">> \o b \o <<" ", "/">> : b \in bodies}

GIdle ==
    /\ spanish_text = <<>> /\ NASAL_ASSIMILATION = FALSE /\ GLIDE_MODE = "safe"
    /\ results = <<>> /\ ipa = <<>> /\ phase = "idle"

TIdle ==
    /\ ipa_text = <<>> /\ phoneme_to_id = <<>> /\ keep_stress_if_mapped = TRUE
    /\ s = <<>> /\ keys = <<>> /\ tokens = <<>> /\ unknown = <<>>
    /\ i = 0 /\ n = 0 /\ pc = "idle"

InitG2P(texts) ==
    /\ spanish_text \in texts
    /\ NASAL_ASSIMILATION \in BOOLEAN
    /\ GLIDE_MODE \in GLIDE_MODES
    /\ results = <<>> /\ ipa = <<>> /\ phase = "input"
    /\ TIdle

InitText == InitG2P(SeqsUpTo(TextChars, MaxTextLen))

InitWord == InitG2P(SeqsUpTo(WordChars, MaxWordLen))

\* The worked example of the tokenizer: "/ k'asa /" against the keys k ' a s.
Scenario6Text == <<"/", " ", "k", STRESS, "a", "s", "a", " ", "/">>
Scenario6Vocab == << <<"k">>, <<STRESS>>, <<"a">>, <<"s">> >>

\* Before tokenize_ipa is called.
InitTok == TIdle /\ GIdle

(* ---------------- actions ---------------- *)
\* ipa = g2p(spanish_text)
Transcribe ==
    /\ phase = "input"
    /\ results' = g2p_out(spanish_text, NASAL_ASSIMILATION, GLIDE_MODE)
    /\ ipa' = Assemble(spanish_text, results')
    /\ phase' = "done"
    /\ UNCHANGED <<spanish_text, NASAL_ASSIMILATION, GLIDE_MODE, tvars>>

\* toks, unknown = tokenize_ipa(ipa, phoneme_to_id, keep_stress_if_mapped): the
\* call binds the arguments, drawn from the given texts and vocabularies.
CallWith(texts, vocabs) ==
    /\ pc = "idle"
    /\ ipa_text' \in texts
    /\ phoneme_to_id' \in vocabs
    /\ keep_stress_if_mapped' \in BOOLEAN
    /\ pc' = "start"
    /\ UNCHANGED <<s, keys, tokens, unknown, i, n, gvars>>

Call == CallWith(IpaTexts, Vocabularies)

\* The call of the worked example.
CallScenario6 ==
    /\ pc = "idle"
    /\ ipa_text' = Scenario6Text
    /\ phoneme_to_id' = Scenario6Vocab
    /\ keep_stress_if_mapped' = TRUE
    /\ pc' = "start"
    /\ UNCHANGED <<s, keys, tokens, unknown, i, n, gvars>>

\* The calls of the termination check.
CallScan == CallWith(SeqsUpTo(ScanChars, MaxBodyLen), VocabulariesOver(ScanKeys))

\* tokenize_ipa, lines 49-62: everything before the while loop.
Prepare ==
    /\ pc = "start"
    /\ s' = PrepareString(ipa_text, phoneme_to_id, keep_stress_if_mapped)
    /\ keys' = SortedKeys(phoneme_to_id)
    /\ tokens' = <<>> /\ unknown' = <<>>
    /\ i' = 0 /\ n' = Len(s')
    /\ pc' = "scan"
    /\ UNCHANGED <<ipa_text, phoneme_to_id, keep_stress_if_mapped, gvars>>

\* One iteration of the while loop in which the for loop finds a key.
ScanMatch ==
    /\ pc = "scan" /\ i < n
    /\ Matching(s, keys, i) # <<>>
    /\ LET k == Head(Matching(s, keys, i))
       IN  /\ tokens' = Append(tokens, k)
           /\ i' = i + Len(k)
    /\ UNCHANGED <<ipa_text, phoneme_to_id, keep_stress_if_mapped, s, keys, unknown, n, pc, gvars>>

\* One iteration of the while loop in which no key matches.
ScanUnknown ==
    /\ pc = "scan" /\ i < n
    /\ Matching(s, keys, i) = <<>>
    /\ unknown' = Append(unknown, s[i + 1])
    /\ i' = i + 1
    /\ UNCHANGED <<ipa_text, phoneme_to_id, keep_stress_if_mapped, s, keys, tokens, n, pc, gvars>>

\* The loop condition fails: return tokens, unknown.
Return ==
    /\ pc = "scan" /\ ~(i < n)
    /\ pc' = "done"
    /\ UNCHANGED <<ipa_text, phoneme_to_id, keep_stress_if_mapped, s, keys, tokens, unknown, i, n, gvars>>

NextG2P == Transcribe

NextTok == Call \/ CallScenario6 \/ Prepare \/ ScanMatch \/ ScanUnknown \/ Return

NextScan == CallScan \/ Prepare \/ ScanMatch \/ ScanUnknown \/ Return

SpecText == InitText /\ [][NextG2P]_vars

SpecWord == InitWord /\ [][NextG2P]_vars

SpecTok == InitTok /\ [][NextTok]_vars

\* A call of tokenize_ipa is synchronous and never suspended: the call is made
\* and its loop runs to completion.
FairSpecScan == InitTok /\ [][NextScan]_vars /\ WF_vars(NextScan)

(* ---------------- properties of g2p ---------------- *)
\* C1: the string g2p returns contains none of the accented vowels, for every
\* input text and every setting of NASAL_ASSIMILATION and GLIDE_MODE.
C1_NoAccentedVowel ==
    phase = "done" => \A k \in 1..Len(ipa) : ipa[k] \notin Set(VOWELS_ACCENTED)

\* C1 witness: a word whose stressed vowel was still accented when it reached
\* the marker finalizer has been transcribed, and the marker is in the output.
C1_Witness ==
    /\ phase = "done"
    /\ \E k \in 1..Len(results) :
          /\ results[k].word
          /\ \E v \in Set(VOWELS_ACCENTED) : Contains(results[k].p3, v)
          /\ Contains(results[k].tok, "A'")
    /\ Contains(ipa, STRESS)

\* C2 (as claimed): a word token without a written accent whose mapped form has
\* at least two vowel groups is stressed on the penultimate vowel group when
\* the word's final letter is a vowel, n or s, and on the final vowel group
\* when its final letter is anything else; the marker is in the result.
C2_DefaultStressByFinalLetter ==
    phase = "done" =>
      \A k \in 1..Len(results) :
        LET r == results[k]
            w == normalize_word(r.tok)
            groups == VowelGroups(r.p1)
            last == w[Len(w)]
            target == IF last \in Set(VOWELS) \cup {"n", "s"}
                      THEN groups[Len(groups) - 1] ELSE groups[Len(groups)]
        IN  ( /\ r.word
              /\ \A m \in 1..Len(w) : w[m] \notin Set(VOWELS_ACCENTED)
              /\ Len(groups) >= 2 )
            => /\ \E m \in target[1]..target[2] : r.p2[m] \in Set(VOWELS_ACCENTED)
               /\ \A m \in 1..Len(r.p2) :
                     r.p2[m] \in Set(VOWELS_ACCENTED) => m \in target[1]..target[2]
               /\ Contains(r.p4, STRESS)

\* C3: in the string g2p returns, no punctuation character is immediately next
\* to an alphabetic character.
C3_PunctuationIsolated ==
    phase = "done" =>
      \A k \in 1..(Len(ipa) - 1) :
        LET alpha(c) == c \notin (PUNCT_SET \cup WHITESPACE \cup {"/", COMBINING_ACUTE})
        IN  /\ ~(ipa[k] \in PUNCT_SET /\ alpha(ipa[k + 1]))
            /\ ~(alpha(ipa[k]) /\ ipa[k + 1] \in PUNCT_SET)

\* C3 witness: the input had a punctuation character glued to a letter on
\* both sides, and the punctuation is in the output.
C3_Witness ==
    /\ phase = "done"
    /\ \E k \in 2..(Len(spanish_text) - 1) :
          /\ spanish_text[k] \in PUNCT_SET
          /\ spanish_text[k - 1] \in {"a", "d"}
          /\ spanish_text[k + 1] \in {"a", "d"}
          /\ Contains(ipa, spanish_text[k])

\* C4 (as claimed): g2p returns "//" exactly when the input is empty or
\* whitespace-only; otherwise it returns "/ " + T + " /" where T joins one
\* non-empty result per token with single spaces, so that the output has no
\* two consecutive spaces.
C4_OutputForm ==
    phase = "done" =>
      LET blank == \A k \in 1..Len(spanish_text) : spanish_text[k] \in WHITESPACE
          toks == Tokens(spanish_text)
      IN  /\ (ipa = <<"/", "/">>) <=> blank
          /\ ~blank =>
               /\ Len(results) = Len(toks)
               /\ \A k \in 1..Len(results) : results[k].tok = toks[k] /\ Len(results[k].p4) > 0
               /\ ipa = <<"/", " ">> \o join(<<" ">>, [k \in 1..Len(results) |-> results[k].p4])
                          \o <<" ", "/">>
               /\ \A k \in 1..(Len(ipa) - 1) : ~(ipa[k] = " " /\ ipa[k + 1] = " ")

\* C8 (as claimed): for a lowercase word over the Spanish alphabet, the output
\* of map_graphemes has no residual orthographic letter: every character is a
\* vowel (possibly accented), one of b d f g k l m n p s t w, or a phone symbol.
C8_NoResidualLetter ==
    phase = "done" =>
      \A k \in 1..Len(results) :
        LET r == results[k]
            spanish == {"a", "b", "c", "d", "e", "f", "g", "h", "i", "j", "k", "l", "m",
                        "n", "o", "p", "q", "r", "s", "t", "u", "v", "w", "x", "y", "z",
                        "n~", "u:"} \cup Set(VOWELS_ACCENTED)
            allowed == Set(ALL_VOWELS) \cup
                       {"b", "d", "f", "g", "k", "l", "m", "n", "p", "s", "t", "w",
                        TESH, "x", TAP, "r", JOT, ENYE, "j", ENG}
        IN  (r.word /\ \A m \in 1..Len(r.tok) : r.tok[m] \in spanish)
            => \A m \in 1..Len(r.p1) : r.p1[m] \in allowed

\* C9 (as claimed): replacing an occurrence of "..." in the input by the
\* one-character ellipsis changes neither the normalized token sequence nor
\* the transcription, and the ellipsis appears as three "." tokens.
C9_EllipsisFormsIdentical ==
    phase = "done" =>
      \A k \in 1..Len(spanish_text) :
        StartsWithAt(spanish_text, <<".", ".", ".">>, k) =>
          LET alt == SubSeq(spanish_text, 1, k - 1) \o <<ELLIPSIS>> \o From(spanish_text, k + 3)
          IN  /\ Tokens(alt) = [m \in 1..Len(results) |-> results[m].tok]
              /\ g2p(alt, NASAL_ASSIMILATION, GLIDE_MODE) = ipa

\* C9 (amended): an occurrence of "..." in the input is normalized to three
\* separate "." tokens, and the same input with "..." replaced by the
\* one-character ellipsis is normalized to the same tokens with a single
\* ELLIPSIS token in place of those three.
C9_EllipsisFormsDiffer ==
    phase = "done" =>
      \A k \in 1..Len(spanish_text) :
        StartsWithAt(spanish_text, <<".", ".", ".">>, k) =>
          LET pre == SubSeq(spanish_text, 1, k - 1)
              suf == From(spanish_text, k + 3)
              alt == pre \o <<ELLIPSIS>> \o suf
          IN  /\ [m \in 1..Len(results) |-> results[m].tok]
                   = Tokens(pre) \o << <<".">>, <<".">>, <<".">> >> \o Tokens(suf)
              /\ Tokens(alt) = Tokens(pre) \o << <<ELLIPSIS>> >> \o Tokens(suf)
              /\ ipa # g2p(alt, NASAL_ASSIMILATION, GLIDE_MODE)

\* C9 witness: a text with "..." glued to a letter has been transcribed.
C9_Witness ==
    /\ phase = "done"
    /\ \E k \in 1..Len(spanish_text) :
          /\ StartsWithAt(spanish_text, <<".", ".", ".">>, k)
          /\ \/ k > 1 /\ spanish_text[k - 1] = "a"
             \/ k + 3 <= Len(spanish_text) /\ spanish_text[k + 3] = "a"
    /\ \E k \in 1..Len(ipa) : StartsWithAt(ipa, <<".", " ", ".", " ", ".">>, k)

(* ---------------- properties of tokenize_ipa ---------------- *)
\* C5 (as claimed): for a transcription "/ w /" in which every character of w
\* is a key of a vocabulary of single-character keys, the tokens are exactly
\* the characters of w in order and nothing is unmapped (the delimiters and
\* the whitespace around the body are stripped before the scan).
C5_DelimitersAndSpaceStripped ==
    (pc = "done" /\ keep_stress_if_mapped) =>
      LET t == ipa_text
          L == Len(ipa_text)
      IN  ( /\ L >= 5
            /\ t[1] = "/" /\ t[2] = " " /\ t[L - 1] = " " /\ t[L] = "/"
            /\ \A k \in 1..Len(phoneme_to_id) : Len(phoneme_to_id[k]) = 1
            /\ \A k \in 3..(L - 2) : InVocab(phoneme_to_id, <<t[k]>>) )
          => /\ tokens = [k \in 1..(L - 4) |-> <<t[k + 2]>>]
             /\ unknown = <<>>

\* C6 (as claimed): for every vocabulary, every key of it and every n >= 1,
\* tokenizing the key repeated n times (with keep_stress_if_mapped at its
\* default, True) returns the key n times and no unmapped character.
C6_RoundTripEveryKey ==
    (pc = "done" /\ keep_stress_if_mapped) =>
      \A a \in 1..Len(phoneme_to_id) : \A m \in 1..Len(ipa_text) :
        LET key == phoneme_to_id[a]
        IN  (Len(key) > 0 /\ ipa_text = join(<<>>, [k \in 1..m |-> key]))
            => tokens = [k \in 1..m |-> key] /\ unknown = <<>>

\* C6 (amended): tokenizing a non-empty key repeated n >= 1 times returns the
\* key n times and no unmapped character, provided the key neither begins nor
\* ends with whitespace or "/", no longer key is a prefix of the repeated
\* string, and neither the stress deletion nor the ligature rewrite of the
\* preprocessing applies to it.
C6_RoundTripPlainKey ==
    pc = "done" =>
      \A a \in 1..Len(phoneme_to_id) : \A m \in 1..Len(ipa_text) :
        LET key == phoneme_to_id[a]
            edge == WHITESPACE \cup {"/"}
        IN  ( /\ Len(key) > 0 /\ ipa_text = join(<<>>, [k \in 1..m |-> key])
              /\ key[1] \notin edge /\ key[Len(key)] \notin edge
              /\ \A b \in 1..Len(phoneme_to_id) :
                    Len(phoneme_to_id[b]) > Len(key) => ~startswith(ipa_text, phoneme_to_id[b])
              /\ Contains(key, STRESS) =>
                    (keep_stress_if_mapped /\ InVocab(phoneme_to_id, <<STRESS>>))
              /\ (\E k \in 1..Len(ipa_text) : StartsWithAt(ipa_text, <<"t", ESH>>, k)) =>
                    (~InVocab(phoneme_to_id, <<TESH>>) \/ InVocab(phoneme_to_id, <<"t", ESH>>)) )
            => tokens = [k \in 1..m |-> key] /\ unknown = <<>>

\* C6 witness: a two-character key was repeated while one of its prefixes was
\* a key too, and the call has returned.
C6_Witness ==
    /\ pc = "done"
    /\ InVocab(phoneme_to_id, <<"a">>) /\ InVocab(phoneme_to_id, <<"a", "a">>)
    /\ ipa_text = <<"a", "a">>
    /\ tokens = << <<"a", "a">> >>

\* C7: at every scan position, if some non-empty key of the vocabulary is a
\* prefix of the rest of the string, the emitted token is such a key of maximal
\* length and the position advances by its length; otherwise the current
\* character alone is appended to the unmapped list and the position advances
\* by one.
C7_LongestMatch ==
    [][ (pc = "scan" /\ i < n) =>
          LET cands == {k \in Set(phoneme_to_id) : Len(k) > 0 /\ StartsWithAt(s, k, i + 1)}
          IN  IF cands # {}
              THEN /\ \E k \in cands :
                         /\ \A c \in cands : Len(c) <= Len(k)
                         /\ tokens' = Append(tokens, k)
                         /\ i' = i + Len(k)
                   /\ unknown' = unknown
              ELSE /\ unknown' = Append(unknown, s[i + 1])
                   /\ i' = i + 1
                   /\ tokens' = tokens ]_vars

\* C7 witness: the shorter key was inserted first, the longer one was emitted,
\* and a character no key matches was recorded as unmapped.
C7_Witness ==
    /\ pc = "done"
    /\ phoneme_to_id = << <<"a">>, <<"a", "a">> >>
    /\ tokens = << <<"a", "a">> >>
    /\ unknown = << "t" >>

\* C10: for every input and vocabulary (the empty vocabulary and the empty key
\* included) every iteration of the scan strictly advances the position, the
\* scan terminates, and each iteration appends exactly the scanned piece to
\* one of the two lists, so that on termination the lengths of the tokens plus
\* the number of unmapped characters add up to the length of the scanned
\* string, of which they are the pieces in scan order.
C10_ScanAdvancesAndTerminates ==
    /\ [][ (pc = "scan" /\ i < n) =>
             /\ i' > i /\ i' <= n
             /\ \/ tokens' = Append(tokens, SubSeq(s, i + 1, i')) /\ unknown' = unknown
                \/ unknown' = Append(unknown, s[i + 1]) /\ i' = i + 1 /\ tokens' = tokens ]_vars
    /\ [](pc \in {"scan", "done"} => Len(join(<<>>, tokens)) + Len(unknown) = i)
    /\ [](pc = "done" => i = Len(s))
    /\ <>(pc = "done")

\* C10 witness: a scan over a vocabulary holding the empty key has returned
\* with both a token and an unmapped character.
C10_Witness ==
    /\ pc = "done"
    /\ InVocab(phoneme_to_id, <<>>)
    /\ tokens # <<>> /\ unknown # <<>>

=============================================================================
